---- MODULE Spec2Model ----
(***************************************************************************)
(* Process I/O synchronization bridge of Matrix-Game-2/server.py.          *)
(*                                                                         *)
(* One child process at a time is driven over line-oriented pipes.  Every  *)
(* child that is launched gets its own reader thread and writer thread;    *)
(* all of them share the module globals _in_q, _ready_mouse, _ready_move,  *)
(* _await_image and _current_image_path.  The /cmd and /restart handlers   *)
(* are coroutines of one event loop, so they never overlap one another,    *)
(* but the threads interleave with them at every lock boundary.            *)
(*                                                                         *)
(* Child processes are numbered in launch order (the identity of the       *)
(* Popen object); proc = NoProc models proc = None.  hist, enqGen and      *)
(* taker record what happened and are read by no action of the threads or  *)
(* handlers.  _LOGS is kept as the set of the entries appended to it (the   *)
(* buffer holds the last 400 of them); outdir is the list of the clips in   *)
(* OUTPUT_DIR, oldest first; resp is the latest response of /restart,      *)
(* /current.mp4, /image or /thumb (the other routes always answer 200).    *)
(***************************************************************************)
EXTENDS Integers, Sequences, FiniteSets, TLC

\* ------------------------------------------------------------------ bounds
MaxProcs == 2     \* child processes launched in one run
MaxCmds  == 2     \* commands accepted by /cmd in one run
MaxLines == 2     \* lines the children print in one run
PipeCap  == 1     \* lines buffered in a child's stdout pipe
MaxSize  == 3     \* bytes in a clip; Range numbers go one beyond

Gens   == 1..MaxProcs
CmdIds == 1..MaxCmds
NoProc == 0

\* ------------------------------------------------------------- file system
\* A path is the sequence of its components below "/".
IMAGES_DIR == <<"images">>

P_image   == <<"images", "image.png">>
P_other   == <<"images", "sub", "..", "image.png">>
P_gone    == <<"images", "gone.png">>
P_escape  == <<"images", "..", "etc", "passwd">>

\* The files that exist (resolved paths).
FILES == { <<"images", "image.png">>, <<"etc", "passwd">> }

\* pathlib.Path(path).resolve(): ".." removes the component before it.
RECURSIVE Resolve(_)
Resolve(path) ==
    IF path = <<>> THEN <<>>
    ELSE LET init == Resolve(SubSeq(path, 1, Len(path) - 1))
             last == path[Len(path)]
         IN  IF last = ".."
             THEN (IF init = <<>> THEN <<>> ELSE SubSeq(init, 1, Len(init) - 1))
             ELSE Append(init, last)

\* os.path.commonpath of two absolute paths: their longest common prefix.
RECURSIVE commonpath(_, _)
commonpath(a, b) ==
    IF a = <<>> \/ b = <<>> THEN <<>>
    ELSE IF Head(a) # Head(b) THEN <<>>
    ELSE <<Head(a)>> \o commonpath(Tail(a), Tail(b))

\* _within comparing the components as given, ".." not resolved.
_within_lexical(base, path) ==
    base = commonpath(base, path)

_within(base, path) ==
    LET base_p == Resolve(base)
        path_p == Resolve(path)
    IN  base_p = commonpath(base_p, path_p)

exists(path) == Resolve(path) \in FILES

\* ---------------------------------------------------------- child's output
_IMG_PROMPT_TOKENS ==
    { "input the image path", "image path:", "please input the image",
      "please input image", "enter image path", "path of the image" }

MOUSE_TOKEN == "please input the mouse action"
MOVE_TOKENS == { "movement action", "press [w, s, a, d, q]" }

L_image == "Please input the image path"
L_mouse == "Please input the mouse action"
L_move  == "PRESS [W, S, A, D, Q]"
L_text  == "loading checkpoint"

\* Further lines: other spellings and cases of the prompts, lines holding the
\* phrases of several prompts, and lines that only resemble a prompt.
L_empty        == ""
L_image_upper  == "IMAGE PATH:"
L_image_lower  == "image path:"
L_image_enter  == "Enter Image Path"
L_image_short  == "please input image"
L_image_of     == "Path of the Image?"
L_mouse_upper  == "PLEASE INPUT THE MOUSE ACTION"
L_move_title   == "Movement Action"
L_move_lower   == "movement action"
L_mouse_move   == "Please input the mouse action, then the movement action"
L_move_mouse   == "Press [W, S, A, D, Q] or please input the mouse action"
L_mouse_image  == "please input the mouse action for image path: x"
L_move_image   == "movement action / Image Path:"
L_all          == "Movement Action, Please Input The Mouse Action, Enter Image Path"
L_part         == "mouse action"
L_gap          == "Please input  the mouse action"

\* The characters of the strings above (a string cannot be taken apart).
Chars(s) ==
    CASE s = "input the image path" ->
        <<"i", "n", "p", "u", "t", " ", "t", "h", "e", " ", "i", "m", "a",
          "g", "e", " ", "p", "a", "t", "h">>
      [] s = "image path:" ->
        <<"i", "m", "a", "g", "e", " ", "p", "a", "t", "h", ":">>
      [] s = "please input the image" ->
        <<"p", "l", "e", "a", "s", "e", " ", "i", "n", "p", "u", "t", " ",
          "t", "h", "e", " ", "i", "m", "a", "g", "e">>
      [] s = "please input image" ->
        <<"p", "l", "e", "a", "s", "e", " ", "i", "n", "p", "u", "t", " ",
          "i", "m", "a", "g", "e">>
      [] s = "enter image path" ->
        <<"e", "n", "t", "e", "r", " ", "i", "m", "a", "g", "e", " ", "p",
          "a", "t", "h">>
      [] s = "path of the image" ->
        <<"p", "a", "t", "h", " ", "o", "f", " ", "t", "h", "e", " ", "i",
          "m", "a", "g", "e">>
      [] s = "please input the mouse action" ->
        <<"p", "l", "e", "a", "s", "e", " ", "i", "n", "p", "u", "t", " ",
          "t", "h", "e", " ", "m", "o", "u", "s", "e", " ", "a", "c", "t",
          "i", "o", "n">>
      [] s = "movement action" ->
        <<"m", "o", "v", "e", "m", "e", "n", "t", " ", "a", "c", "t", "i",
          "o", "n">>
      [] s = "press [w, s, a, d, q]" ->
        <<"p", "r", "e", "s", "s", " ", "[", "w", ",", " ", "s", ",", " ",
          "a", ",", " ", "d", ",", " ", "q", "]">>
      [] s = L_image ->
        <<"P", "l", "e", "a", "s", "e", " ", "i", "n", "p", "u", "t", " ",
          "t", "h", "e", " ", "i", "m", "a", "g", "e", " ", "p", "a", "t",
          "h">>
      [] s = L_mouse ->
        <<"P", "l", "e", "a", "s", "e", " ", "i", "n", "p", "u", "t", " ",
          "t", "h", "e", " ", "m", "o", "u", "s", "e", " ", "a", "c", "t",
          "i", "o", "n">>
      [] s = L_move ->
        <<"P", "R", "E", "S", "S", " ", "[", "W", ",", " ", "S", ",", " ",
          "A", ",", " ", "D", ",", " ", "Q", "]">>
      [] s = L_text ->
        <<"l", "o", "a", "d", "i", "n", "g", " ", "c", "h", "e", "c", "k",
          "p", "o", "i", "n", "t">>
      [] s = L_empty -> <<>>
      [] s = L_image_upper ->
        <<"I", "M", "A", "G", "E", " ", "P", "A", "T", "H", ":">>
      [] s = L_image_lower ->
        <<"i", "m", "a", "g", "e", " ", "p", "a", "t", "h", ":">>
      [] s = L_image_enter ->
        <<"E", "n", "t", "e", "r", " ", "I", "m", "a", "g", "e", " ", "P",
          "a", "t", "h">>
      [] s = L_image_short ->
        <<"p", "l", "e", "a", "s", "e", " ", "i", "n", "p", "u", "t", " ",
          "i", "m", "a", "g", "e">>
      [] s = L_image_of ->
        <<"P", "a", "t", "h", " ", "o", "f", " ", "t", "h", "e", " ", "I",
          "m", "a", "g", "e", "?">>
      [] s = L_mouse_upper ->
        <<"P", "L", "E", "A", "S", "E", " ", "I", "N", "P", "U", "T", " ",
          "T", "H", "E", " ", "M", "O", "U", "S", "E", " ", "A", "C", "T",
          "I", "O", "N">>
      [] s = L_move_title ->
        <<"M", "o", "v", "e", "m", "e", "n", "t", " ", "A", "c", "t", "i",
          "o", "n">>
      [] s = L_move_lower ->
        <<"m", "o", "v", "e", "m", "e", "n", "t", " ", "a", "c", "t", "i",
          "o", "n">>
      [] s = L_mouse_move ->
        <<"P", "l", "e", "a", "s", "e", " ", "i", "n", "p", "u", "t", " ",
          "t", "h", "e", " ", "m", "o", "u", "s", "e", " ", "a", "c", "t",
          "i", "o", "n", ",", " ", "t", "h", "e", "n", " ", "t", "h", "e",
          " ", "m", "o", "v", "e", "m", "e", "n", "t", " ", "a", "c", "t",
          "i", "o", "n">>
      [] s = L_move_mouse ->
        <<"P", "r", "e", "s", "s", " ", "[", "W", ",", " ", "S", ",", " ",
          "A", ",", " ", "D", ",", " ", "Q", "]", " ", "o", "r", " ", "p",
          "l", "e", "a", "s", "e", " ", "i", "n", "p", "u", "t", " ", "t",
          "h", "e", " ", "m", "o", "u", "s", "e", " ", "a", "c", "t", "i",
          "o", "n">>
      [] s = L_mouse_image ->
        <<"p", "l", "e", "a", "s", "e", " ", "i", "n", "p", "u", "t", " ",
          "t", "h", "e", " ", "m", "o", "u", "s", "e", " ", "a", "c", "t",
          "i", "o", "n", " ", "f", "o", "r", " ", "i", "m", "a", "g", "e",
          " ", "p", "a", "t", "h", ":", " ", "x">>
      [] s = L_move_image ->
        <<"m", "o", "v", "e", "m", "e", "n", "t", " ", "a", "c", "t", "i",
          "o", "n", " ", "/", " ", "I", "m", "a", "g", "e", " ", "P", "a",
          "t", "h", ":">>
      [] s = L_all ->
        <<"M", "o", "v", "e", "m", "e", "n", "t", " ", "A", "c", "t", "i",
          "o", "n", ",", " ", "P", "l", "e", "a", "s", "e", " ", "I", "n",
          "p", "u", "t", " ", "T", "h", "e", " ", "M", "o", "u", "s", "e",
          " ", "A", "c", "t", "i", "o", "n", ",", " ", "E", "n", "t", "e",
          "r", " ", "I", "m", "a", "g", "e", " ", "P", "a", "t", "h">>
      [] s = L_part ->
        <<"m", "o", "u", "s", "e", " ", "a", "c", "t", "i", "o", "n">>
      [] s = L_gap ->
        <<"P", "l", "e", "a", "s", "e", " ", "i", "n", "p", "u", "t", " ",
          " ", "t", "h", "e", " ", "m", "o", "u", "s", "e", " ", "a", "c",
          "t", "i", "o", "n">>

UPPER == <<"A", "B", "C", "D", "E", "F", "G", "H", "I", "J", "K", "L", "M", "N", "O", "P", "Q", "R", "S", "T", "U", "V", "W", "X", "Y", "Z">>
LOWER == <<"a", "b", "c", "d", "e", "f", "g", "h", "i", "j", "k", "l", "m", "n", "o", "p", "q", "r", "s", "t", "u", "v", "w", "x", "y", "z">>

\* str.lower(): every upper-case letter is replaced by its lower-case one.
lower(s) ==
    [i \in 1..Len(s) |->
        IF \E k \in 1..Len(UPPER) : UPPER[k] = s[i]
        THEN LOWER[CHOOSE k \in 1..Len(UPPER) : UPPER[k] = s[i]]
        ELSE s[i]]

\* "tok in low": tok occurs in low as a run of consecutive characters.
Contains(tok, low) ==
    \E i \in 0..(Len(low) - Len(tok)) :
        \A j \in 1..Len(tok) : low[i + j] = tok[j]

\* The lines a child can print, as the Reader has them after rstrip().
TestLines ==
    { L_image, L_mouse, L_move, L_text,
      L_empty, L_image_upper, L_image_lower, L_image_enter,
      L_image_short, L_image_of, L_mouse_upper, L_move_title,
      L_move_lower, L_mouse_move, L_move_mouse, L_mouse_image,
      L_move_image, L_all, L_part, L_gap }

\* low = s.lower(), for every line.
LowTable == [s \in TestLines |-> lower(Chars(s))]

\* For every line, the phrases the Reader looks for that occur in s.lower().
PhraseTable ==
    [s \in TestLines |->
        { tok \in _IMG_PROMPT_TOKENS \cup {MOUSE_TOKEN} \cup MOVE_TOKENS :
            Contains(Chars(tok), LowTable[s]) }]

\* The known phrases that occur in s.lower().
Phrases(s) == PhraseTable[s]

ChildLines == { L_image, L_mouse, L_move, L_text }

\* Classify testing for the mouse prompt before the image prompt.
Classify_mouse_first(s) ==
    LET low == Phrases(s)
    IN  IF MOUSE_TOKEN \in low THEN "mouse"
        ELSE IF \E tok \in _IMG_PROMPT_TOKENS : tok \in low THEN "image"
        ELSE IF \E tok \in MOVE_TOKENS : tok \in low THEN "move"
        ELSE "none"

\* The branch of _reader_thread a line takes.
Classify(s) ==
    LET low == Phrases(s)
    IN  IF \E tok \in _IMG_PROMPT_TOKENS : tok \in low THEN "image"
        ELSE IF MOUSE_TOKEN \in low THEN "mouse"
        ELSE IF \E tok \in MOVE_TOKENS : tok \in low THEN "move"
        ELSE "none"

\* ------------------------------------------------------------------- state
VARIABLES
    proc,                 \* the global proc: the current child, or NoProc
    nprocs,               \* children launched so far
    alive,                \* alive[g]: child g has not exited
    pipe,                 \* pipe[g]: lines child g printed, not yet read
    nlines,               \* lines printed by the children so far
    rdr,                  \* rdr[g]: reader thread of child g: none | run | done
    wpc,                  \* wpc[g]: where the writer thread of child g is
    witem,                \* witem[g]: the writer's local item (0: none)
    wimg,                 \* wimg[g]: the writer's local cur_img
    _in_q,                \* the command queue
    _ready_mouse, _ready_move, _await_image,
    _current_image_path,
    hpc,                  \* where the /restart handler is: idle | stop | start
    ncmds,                \* commands accepted so far
    hist,                 \* hist[g]: prompts read from and lines written to g
    enqGen,               \* enqGen[c]: nprocs when command c was enqueued
    taker,                \* taker[c]: the child whose writer dequeued c
    cphase,               \* cphase[g]: what a protocol-following child g does next
    cread,                \* cread[g]: lines child g has taken from its stdin
    _LOGS,                \* the entries appended to the log buffer
    outdir,               \* the clips in OUTPUT_DIR, each a sequence of bytes
    resp                  \* the latest response of a handler that can refuse

flags == <<_ready_mouse, _ready_move, _await_image>>
threads == <<rdr, wpc, witem, wimg>>
proto == <<cphase, cread>>
web == <<outdir, resp>>
vars == <<proc, nprocs, alive, pipe, nlines, rdr, wpc, witem, wimg, _in_q,
          _ready_mouse, _ready_move, _await_image, _current_image_path,
          hpc, ncmds, hist, enqGen, taker, cphase, cread, _LOGS, outdir, resp>>

\* Queue items.
STOP   == [tag |-> "STOP", id |-> 0]
Cmd(n) == [tag |-> "cmd", id |-> n]

\* Entries of hist.
Saw(kind)      == [ev |-> "R", kind |-> kind, cmd |-> 0, path |-> <<>>]
WroteImage(p)  == [ev |-> "W", kind |-> "image", cmd |-> 0, path |-> p]
WroteMouse(c)  == [ev |-> "W", kind |-> "mouse", cmd |-> c, path |-> <<>>]
WroteMove(c)   == [ev |-> "W", kind |-> "move", cmd |-> c, path |-> <<>>]

\* Entries of _LOGS.
LogChild(s)      == [tag |-> "MG2", text |-> s, cmd |-> 0, path |-> <<>>]
LogSent(e)       == [tag |-> "server->child", text |-> e.kind, cmd |-> e.cmd,
                     path |-> e.path]
LogBadImage(p)   == [tag |-> "server",
                     text |-> "Image not found or outside IMAGES_DIR",
                     cmd |-> 0, path |-> p]
LogNoInitial(p)  == [tag |-> "server", text |-> "Initial image not found",
                     cmd |-> 0, path |-> p]

\* Responses: status code, detail or media type, body, and for a clip the
\* declared Content-Length and the <<start, end, size>> of Content-Range.
Resp(s, d, b, n, cr) ==
    [status |-> s, detail |-> d, body |-> b, length |-> n, crange |-> cr]

NoResp        == Resp(0, "", <<>>, 0, <<>>)
Refused(n, d) == Resp(n, d, <<>>, 0, <<>>)
RestartOk(p)  == Resp(200, "ok", <<p[Len(p)]>>, 0, <<>>)

\* ------------------------------------------------------------ construction
\* MG2_IMG_PATH: the image the service is configured with.
InitPaths == { P_image, P_gone }

\* Module import, with the given clips in OUTPUT_DIR: the child is started when
\* the configured image exists.
Boot(clips) ==
    /\ _current_image_path \in InitPaths
    /\ LET started == exists(_current_image_path)
       IN  /\ proc = IF started THEN 1 ELSE NoProc
           /\ nprocs = IF started THEN 1 ELSE 0
           /\ alive = [g \in Gens |-> started /\ g = 1]
           /\ rdr = [g \in Gens |-> IF started /\ g = 1 THEN "run" ELSE "none"]
           /\ wpc = [g \in Gens |-> IF started /\ g = 1 THEN "top" ELSE "none"]
    /\ pipe = [g \in Gens |-> <<>>]
    /\ nlines = 0
    /\ witem = [g \in Gens |-> 0]
    /\ wimg = [g \in Gens |-> <<>>]
    /\ _in_q = <<>>
    /\ _ready_mouse = FALSE
    /\ _ready_move = FALSE
    /\ _await_image = FALSE
    /\ hpc = "idle"
    /\ ncmds = 0
    /\ hist = [g \in Gens |-> <<>>]
    /\ enqGen = [c \in CmdIds |-> 0]
    /\ taker = [c \in CmdIds |-> 0]
    /\ cphase = [g \in Gens |-> "promptImage"]
    /\ cread = [g \in Gens |-> 0]
    /\ _LOGS = IF exists(_current_image_path) THEN {}
               ELSE {LogNoInitial(_current_image_path)}
    /\ outdir = clips
    /\ resp = NoResp

Init == Boot(<<>>)

\* ---------------------------------------------------------------- the child
\* The child prints a line.
ChildPrint(g, s) ==
    /\ alive[g]
    /\ nlines < MaxLines
    /\ Len(pipe[g]) < PipeCap
    /\ pipe' = [pipe EXCEPT ![g] = Append(@, s)]
    /\ nlines' = nlines + 1
    /\ UNCHANGED <<proto, web, _LOGS, proc, nprocs, alive, threads, _in_q, flags,
                   _current_image_path, hpc, ncmds, hist, enqGen, taker>>

\* The child exits on its own.
ChildExit(g) ==
    /\ alive[g]
    /\ alive' = [alive EXCEPT ![g] = FALSE]
    /\ UNCHANGED <<proto, web, _LOGS, proc, nprocs, pipe, nlines, threads, _in_q, flags,
                   _current_image_path, hpc, ncmds, hist, enqGen, taker>>

\* The bytes of a clip of n bytes.
Bytes(n) == [i \in 1..n |-> (37 * i) % 256]

\* The child writes a clip into OUTPUT_DIR (--output_folder).
ChildOutput(g) ==
    /\ alive[g]
    /\ outdir = <<>>
    /\ outdir' = <<Bytes(MaxSize)>>
    /\ UNCHANGED <<proto, resp, _LOGS, proc, nprocs, alive, pipe, nlines, threads,
                   _in_q, flags, _current_image_path, hpc, ncmds, hist, enqGen,
                   taker>>

\* A scripted child: it prints the three prompts of one session in order,
\* whatever it has been sent.
Script == <<L_image, L_mouse, L_move>>

ChildScript(g) ==
    /\ alive[g]
    /\ nlines < Len(Script)
    /\ Len(pipe[g]) < PipeCap
    /\ pipe' = [pipe EXCEPT ![g] = Append(@, Script[nlines + 1])]
    /\ nlines' = nlines + 1
    /\ UNCHANGED <<proto, web, _LOGS, proc, nprocs, alive, threads, _in_q, flags,
                   _current_image_path, hpc, ncmds, hist, enqGen, taker>>

\* Lines written to the stdin of child g.
Written(g) == SelectSeq(hist[g], LAMBDA e : e.ev = "W")

\* A child that follows the protocol: it asks for the image once, then asks
\* for a mouse token and a movement token in turn, and prints each prompt only
\* after it has read the answer to the one before.
ChildPrompt(phase) ==
    CASE phase = "promptImage" -> L_image
      [] phase = "promptMouse" -> L_mouse
      [] phase = "promptMove"  -> L_move

ChildAfter(phase) ==
    CASE phase = "promptImage" -> "readImage"
      [] phase = "readImage"   -> "promptMouse"
      [] phase = "promptMouse" -> "readMouse"
      [] phase = "readMouse"   -> "promptMove"
      [] phase = "promptMove"  -> "readMove"
      [] phase = "readMove"    -> "promptMouse"

ProtoChild(g) ==
    /\ alive[g]
    /\ IF cphase[g] \in {"promptImage", "promptMouse", "promptMove"}
       THEN /\ Len(pipe[g]) < PipeCap
            /\ pipe' = [pipe EXCEPT ![g] = Append(@, ChildPrompt(cphase[g]))]
            /\ UNCHANGED cread
       ELSE /\ cread[g] < Len(Written(g))
            /\ cread' = [cread EXCEPT ![g] = @ + 1]
            /\ UNCHANGED pipe
    /\ cphase' = [cphase EXCEPT ![g] = ChildAfter(@)]
    /\ UNCHANGED <<web, _LOGS, proc, nprocs, alive, nlines, threads, _in_q, flags,
                   _current_image_path, hpc, ncmds, hist, enqGen, taker>>

\* ------------------------------------------------------------ _reader_thread
\* ReaderLine with the movement prompt clearing _ready_mouse as well.
ReaderLine_exclusive(g) ==
    /\ rdr[g] = "run"
    /\ pipe[g] # <<>>
    /\ LET kind == Classify(Head(pipe[g]))
       IN  /\ pipe' = [pipe EXCEPT ![g] = Tail(@)]
           /\ _await_image' = IF kind = "image" THEN TRUE ELSE _await_image
           /\ _ready_mouse' = CASE kind = "image" -> FALSE
                                [] kind = "mouse" -> TRUE
                                [] kind = "move" -> FALSE
                                [] OTHER -> _ready_mouse
           /\ _ready_move' = CASE kind = "image" -> FALSE
                               [] kind = "mouse" -> FALSE
                               [] kind = "move" -> TRUE
                               [] OTHER -> _ready_move
           /\ hist' = IF kind = "none" THEN hist
                      ELSE [hist EXCEPT ![g] = Append(@, Saw(kind))]
    /\ _LOGS' = _LOGS \cup {LogChild(Head(pipe[g]))}
    /\ UNCHANGED <<proto, web, proc, nprocs, alive, nlines, rdr, wpc, witem, wimg, _in_q,
                   _current_image_path, hpc, ncmds, enqGen, taker>>

\* One iteration of "for raw in p.stdout".
ReaderLine(g) ==
    /\ rdr[g] = "run"
    /\ pipe[g] # <<>>
    /\ LET kind == Classify(Head(pipe[g]))
       IN  /\ pipe' = [pipe EXCEPT ![g] = Tail(@)]
           /\ _await_image' = IF kind = "image" THEN TRUE ELSE _await_image
           /\ _ready_mouse' = CASE kind = "image" -> FALSE
                                [] kind = "mouse" -> TRUE
                                [] OTHER -> _ready_mouse
           /\ _ready_move' = CASE kind = "image" -> FALSE
                               [] kind = "mouse" -> FALSE
                               [] kind = "move" -> TRUE
                               [] OTHER -> _ready_move
           /\ hist' = IF kind = "none" THEN hist
                      ELSE [hist EXCEPT ![g] = Append(@, Saw(kind))]
    /\ _LOGS' = _LOGS \cup {LogChild(Head(pipe[g]))}
    /\ UNCHANGED <<proto, web, proc, nprocs, alive, nlines, rdr, wpc, witem, wimg, _in_q,
                   _current_image_path, hpc, ncmds, enqGen, taker>>

\* End of stream: the child is gone and its pipe is empty.
ReaderEOF(g) ==
    /\ rdr[g] = "run"
    /\ pipe[g] = <<>>
    /\ ~alive[g]
    /\ rdr' = [rdr EXCEPT ![g] = "done"]
    /\ UNCHANGED <<proto, web, _LOGS, proc, nprocs, alive, pipe, nlines, wpc, witem, wimg, _in_q,
                   flags, _current_image_path, hpc, ncmds, hist, enqGen, taker>>

\* ------------------------------------------------------------ _writer_thread
\* A write to p.stdin reaches the child while it lives; afterwards the pipe is
\* broken, _send_line raises and the thread that called it ends.
CanWrite(g) == alive[g]

\* Top of the loop: read _await_image and _current_image_path under io_lock.
WriterTop(g) ==
    /\ wpc[g] = "top"
    /\ wpc' = [wpc EXCEPT ![g] = IF _await_image THEN "img" ELSE "get"]
    /\ wimg' = [wimg EXCEPT ![g] = IF _await_image THEN _current_image_path ELSE <<>>]
    /\ UNCHANGED <<proto, web, _LOGS, proc, nprocs, alive, pipe, nlines, rdr, witem, _in_q, flags,
                   _current_image_path, hpc, ncmds, hist, enqGen, taker>>

\* ImageOk without the test that the file exists.
ImageOk_inside_only(cur_img) ==
    _within(IMAGES_DIR, Resolve(cur_img))

\* The selected image is sent only if it resolves inside IMAGES_DIR and exists.
ImageOk(cur_img) ==
    LET abs_img == Resolve(cur_img)
    IN  _within(IMAGES_DIR, abs_img) /\ exists(abs_img)

\* Step 1, the try block: validate cur_img and send it.  When the write
\* raises, the finally block clears _await_image and the thread ends.
WriterImage(g) ==
    /\ wpc[g] = "img"
    /\ IF ~ImageOk(wimg[g])
       THEN /\ _LOGS' = _LOGS \cup {LogBadImage(Resolve(wimg[g]))}
            /\ wpc' = [wpc EXCEPT ![g] = "clr"]
            /\ UNCHANGED <<hist, _await_image>>
       ELSE IF CanWrite(g)
       THEN /\ hist' = [hist EXCEPT ![g] = Append(@, WroteImage(Resolve(wimg[g])))]
            /\ _LOGS' = _LOGS \cup {LogSent(WroteImage(Resolve(wimg[g])))}
            /\ wpc' = [wpc EXCEPT ![g] = "clr"]
            /\ UNCHANGED _await_image
       ELSE /\ _await_image' = FALSE
            /\ wpc' = [wpc EXCEPT ![g] = "dead"]
            /\ UNCHANGED <<hist, _LOGS>>
    /\ UNCHANGED <<proto, web, proc, nprocs, alive, pipe, nlines, rdr, witem, wimg, _in_q,
                   _ready_mouse, _ready_move, _current_image_path, hpc, ncmds,
                   enqGen, taker>>

\* Step 1, the finally block after a send or a rejected image.
WriterImageDone(g) ==
    /\ wpc[g] = "clr"
    /\ _await_image' = FALSE
    /\ wpc' = [wpc EXCEPT ![g] = "top"]
    /\ wimg' = [wimg EXCEPT ![g] = <<>>]
    /\ UNCHANGED <<proto, web, _LOGS, proc, nprocs, alive, pipe, nlines, rdr, witem, _in_q,
                   _ready_mouse, _ready_move, _current_image_path, hpc, ncmds,
                   hist, enqGen, taker>>

\* WriterGet with the queue read from its newest end.
WriterGet_lifo(g) ==
    /\ wpc[g] = "get"
    /\ IF _in_q = <<>>
       THEN /\ wpc' = [wpc EXCEPT ![g] = "top"]
            /\ UNCHANGED <<_in_q, witem, taker>>
       ELSE /\ _in_q' = SubSeq(_in_q, 1, Len(_in_q) - 1)
            /\ wpc' = [wpc EXCEPT ![g] = "waitMouse"]
            /\ witem' = [witem EXCEPT ![g] = _in_q[Len(_in_q)].id]
            /\ taker' = [taker EXCEPT ![_in_q[Len(_in_q)].id] = g]
    /\ UNCHANGED <<proto, web, _LOGS, proc, nprocs, alive, pipe, nlines, rdr, wimg, flags,
                   _current_image_path, hpc, ncmds, hist, enqGen>>

\* Step 2: _in_q.get(timeout=0.1); an empty queue sends the loop back to the
\* top, the item "STOP" ends it.
WriterGet(g) ==
    /\ wpc[g] = "get"
    /\ IF _in_q = <<>>
       THEN /\ wpc' = [wpc EXCEPT ![g] = "top"]
            /\ UNCHANGED <<_in_q, witem, taker>>
       ELSE /\ _in_q' = Tail(_in_q)
            /\ IF Head(_in_q) = STOP
               THEN /\ wpc' = [wpc EXCEPT ![g] = "done"]
                    /\ UNCHANGED <<witem, taker>>
               ELSE /\ wpc' = [wpc EXCEPT ![g] = "waitMouse"]
                    /\ witem' = [witem EXCEPT ![g] = Head(_in_q).id]
                    /\ taker' = [taker EXCEPT ![Head(_in_q).id] = g]
    /\ UNCHANGED <<proto, web, _LOGS, proc, nprocs, alive, pipe, nlines, rdr, wimg, flags,
                   _current_image_path, hpc, ncmds, hist, enqGen>>

\* "wait for mouse prompt": the poll leaves the loop once _ready_mouse is set.
WriterWaitMouse(g) ==
    /\ wpc[g] = "waitMouse"
    /\ _ready_mouse
    /\ wpc' = [wpc EXCEPT ![g] = "sendMouse"]
    /\ UNCHANGED <<proto, web, _LOGS, proc, nprocs, alive, pipe, nlines, rdr, witem, wimg, _in_q,
                   flags, _current_image_path, hpc, ncmds, hist, enqGen, taker>>

\* WriterSendMouse with the pair unpacked the wrong way round.
WriterSendMouse_swapped(g) ==
    /\ wpc[g] = "sendMouse"
    /\ IF CanWrite(g)
       THEN /\ hist' = [hist EXCEPT ![g] = Append(@, WroteMove(witem[g]))]
            /\ _LOGS' = _LOGS \cup {LogSent(WroteMove(witem[g]))}
            /\ wpc' = [wpc EXCEPT ![g] = "ackMouse"]
       ELSE /\ wpc' = [wpc EXCEPT ![g] = "dead"]
            /\ UNCHANGED <<hist, _LOGS>>
    /\ UNCHANGED <<proto, web, proc, nprocs, alive, pipe, nlines, rdr, witem, wimg,
                   _in_q, flags, _current_image_path, hpc, ncmds, enqGen, taker>>

\* _send_line(p, mouse)
WriterSendMouse(g) ==
    /\ wpc[g] = "sendMouse"
    /\ IF CanWrite(g)
       THEN /\ hist' = [hist EXCEPT ![g] = Append(@, WroteMouse(witem[g]))]
            /\ _LOGS' = _LOGS \cup {LogSent(WroteMouse(witem[g]))}
            /\ wpc' = [wpc EXCEPT ![g] = "ackMouse"]
       ELSE /\ wpc' = [wpc EXCEPT ![g] = "dead"]
            /\ UNCHANGED <<hist, _LOGS>>
    /\ UNCHANGED <<proto, web, proc, nprocs, alive, pipe, nlines, rdr, witem, wimg, _in_q,
                   flags, _current_image_path, hpc, ncmds, enqGen, taker>>

\* After the mouse token: _ready_mouse = False, _ready_move = True.
WriterAckMouse(g) ==
    /\ wpc[g] = "ackMouse"
    /\ _ready_mouse' = FALSE
    /\ _ready_move' = TRUE
    /\ wpc' = [wpc EXCEPT ![g] = "waitMove"]
    /\ UNCHANGED <<proto, web, _LOGS, proc, nprocs, alive, pipe, nlines, rdr, witem, wimg, _in_q,
                   _await_image, _current_image_path, hpc, ncmds, hist, enqGen,
                   taker>>

\* "wait for move prompt"
WriterWaitMove(g) ==
    /\ wpc[g] = "waitMove"
    /\ _ready_move
    /\ wpc' = [wpc EXCEPT ![g] = "sendMove"]
    /\ UNCHANGED <<proto, web, _LOGS, proc, nprocs, alive, pipe, nlines, rdr, witem, wimg, _in_q,
                   flags, _current_image_path, hpc, ncmds, hist, enqGen, taker>>

\* _send_line(p, move)
WriterSendMove(g) ==
    /\ wpc[g] = "sendMove"
    /\ IF CanWrite(g)
       THEN /\ hist' = [hist EXCEPT ![g] = Append(@, WroteMove(witem[g]))]
            /\ _LOGS' = _LOGS \cup {LogSent(WroteMove(witem[g]))}
            /\ wpc' = [wpc EXCEPT ![g] = "ackMove"]
       ELSE /\ wpc' = [wpc EXCEPT ![g] = "dead"]
            /\ UNCHANGED <<hist, _LOGS>>
    /\ UNCHANGED <<proto, web, proc, nprocs, alive, pipe, nlines, rdr, witem, wimg, _in_q,
                   flags, _current_image_path, hpc, ncmds, enqGen, taker>>

\* WriterAckMove clearing _ready_mouse as well.
WriterAckMove_clearsBoth(g) ==
    /\ wpc[g] = "ackMove"
    /\ _ready_move' = FALSE
    /\ _ready_mouse' = FALSE
    /\ wpc' = [wpc EXCEPT ![g] = "top"]
    /\ witem' = [witem EXCEPT ![g] = 0]
    /\ UNCHANGED <<proto, web, _LOGS, proc, nprocs, alive, pipe, nlines, rdr, wimg,
                   _in_q, _await_image, _current_image_path, hpc, ncmds, hist,
                   enqGen, taker>>

\* After the move token: _ready_move = False, and back to the top.
WriterAckMove(g) ==
    /\ wpc[g] = "ackMove"
    /\ _ready_move' = FALSE
    /\ wpc' = [wpc EXCEPT ![g] = "top"]
    /\ witem' = [witem EXCEPT ![g] = 0]
    /\ UNCHANGED <<proto, web, _LOGS, proc, nprocs, alive, pipe, nlines, rdr, wimg, _in_q,
                   _ready_mouse, _await_image, _current_image_path, hpc, ncmds,
                   hist, enqGen, taker>>

Reader(g) == ReaderLine(g) \/ ReaderEOF(g)

Writer(g) ==
    \/ WriterTop(g) \/ WriterImage(g) \/ WriterImageDone(g) \/ WriterGet(g)
    \/ WriterWaitMouse(g) \/ WriterSendMouse(g) \/ WriterAckMouse(g)
    \/ WriterWaitMove(g) \/ WriterSendMove(g) \/ WriterAckMove(g)

\* ------------------------------------------------------------------ handlers
\* POST /cmd: the command is put on the queue.
cmd_endpoint ==
    /\ hpc = "idle"
    /\ ncmds < MaxCmds
    /\ ncmds' = ncmds + 1
    /\ _in_q' = Append(_in_q, Cmd(ncmds + 1))
    /\ enqGen' = [enqGen EXCEPT ![ncmds + 1] = nprocs]
    /\ UNCHANGED <<proto, web, _LOGS, proc, nprocs, alive, pipe, nlines, threads, flags,
                   _current_image_path, hpc, hist, taker>>

\* The img field of a /restart body; <<>> is an absent one.
ReqImages == { <<>>, P_image, P_gone, P_escape }

\* restart adopting the image before it validates it.
restart_adopt_first(img, purge) ==
    /\ hpc = "idle"
    /\ nprocs < MaxProcs
    /\ _current_image_path' = IF img # <<>> THEN img ELSE _current_image_path
    /\ IF img # <<>> /\ (~_within(IMAGES_DIR, img) \/ ~exists(img))
       THEN /\ resp' = Refused(400, "Image must be inside IMAGES_DIR")
            /\ UNCHANGED <<hpc, outdir>>
       ELSE /\ outdir' = IF purge THEN <<>> ELSE outdir
            /\ hpc' = "stop"
            /\ resp' = NoResp
    /\ UNCHANGED <<proto, _LOGS, proc, nprocs, alive, pipe, nlines, threads, _in_q,
                   flags, ncmds, hist, enqGen, taker>>

\* POST /restart, up to the call of _stop_proc: a given image is validated and
\* adopted, an invalid one is answered 400; then OUTPUT_DIR is emptied when
\* purge is set.  The response of an accepted request is pending until
\* _start_proc has returned.
restart(img, purge) ==
    /\ hpc = "idle"
    /\ nprocs < MaxProcs
    /\ IF img # <<>> /\ (~_within(IMAGES_DIR, img) \/ ~exists(img))
       THEN /\ resp' = Refused(400, "Image must be inside IMAGES_DIR")
            /\ UNCHANGED <<_current_image_path, hpc, outdir>>
       ELSE /\ _current_image_path' = IF img # <<>> THEN img ELSE _current_image_path
            /\ outdir' = IF purge THEN <<>> ELSE outdir
            /\ hpc' = "stop"
            /\ resp' = NoResp
    /\ UNCHANGED <<proto, _LOGS, proc, nprocs, alive, pipe, nlines, threads, _in_q, flags,
                   ncmds, hist, enqGen, taker>>

\* _stop_proc without its drain loop.
Drained_kept(q) == q

\* The queue after the drain loop of _stop_proc.
Drained(q) == <<>>

\* _stop_proc that only resets the flags and the queue.
_stop_proc_flags_only ==
    /\ hpc = "stop"
    /\ _ready_mouse' = FALSE
    /\ _ready_move' = FALSE
    /\ _await_image' = FALSE
    /\ _in_q' = Drained(_in_q)
    /\ hpc' = "start"
    /\ UNCHANGED <<proto, web, _LOGS, proc, alive, nprocs, pipe, nlines, threads,
                   _current_image_path, ncmds, hist, enqGen, taker>>

\* _stop_proc that drops the handle without terminating the child.
_stop_proc_nokill ==
    /\ hpc = "stop"
    /\ proc' = NoProc
    /\ _ready_mouse' = FALSE
    /\ _ready_move' = FALSE
    /\ _await_image' = FALSE
    /\ _in_q' = Drained(_in_q)
    /\ hpc' = "start"
    /\ UNCHANGED <<proto, web, _LOGS, alive, nprocs, pipe, nlines, threads,
                   _current_image_path, ncmds, hist, enqGen, taker>>

\* _stop_proc: the current child is terminated (killed after the timeout),
\* proc is set to None, the flags are reset and the queue is drained.
_stop_proc ==
    /\ hpc = "stop"
    /\ alive' = IF proc # NoProc THEN [alive EXCEPT ![proc] = FALSE] ELSE alive
    /\ proc' = NoProc
    /\ _ready_mouse' = FALSE
    /\ _ready_move' = FALSE
    /\ _await_image' = FALSE
    /\ _in_q' = Drained(_in_q)
    /\ hpc' = "start"
    /\ UNCHANGED <<proto, web, _LOGS, nprocs, pipe, nlines, threads, _current_image_path, ncmds,
                   hist, enqGen, taker>>

\* _start_proc raising _await_image for the child it launches.
_start_proc_optimistic ==
    /\ hpc = "start"
    /\ hpc' = "idle"
    /\ IF ~_within(IMAGES_DIR, _current_image_path)
       THEN /\ resp' = Refused(500, "Image must be inside IMAGES_DIR")
            /\ UNCHANGED <<proc, nprocs, alive, rdr, wpc, _await_image>>
       ELSE /\ resp' = RestartOk(_current_image_path)
            /\ nprocs' = nprocs + 1
            /\ proc' = nprocs + 1
            /\ alive' = [alive EXCEPT ![nprocs + 1] = TRUE]
            /\ rdr' = [rdr EXCEPT ![nprocs + 1] = "run"]
            /\ wpc' = [wpc EXCEPT ![nprocs + 1] = "top"]
            /\ _await_image' = TRUE
    /\ UNCHANGED <<proto, outdir, _LOGS, pipe, nlines, witem, wimg, _in_q,
                   _ready_mouse, _ready_move, _current_image_path, ncmds, hist,
                   enqGen, taker>>

\* _start_proc: a new child is launched and becomes proc; a reader and a writer
\* thread are started for it.  An image outside IMAGES_DIR raises instead.
_start_proc ==
    /\ hpc = "start"
    /\ hpc' = "idle"
    /\ IF ~_within(IMAGES_DIR, _current_image_path)
       THEN /\ resp' = Refused(500, "Image must be inside IMAGES_DIR")
            /\ UNCHANGED <<proc, nprocs, alive, rdr, wpc>>
       ELSE /\ resp' = RestartOk(_current_image_path)
            /\ nprocs' = nprocs + 1
            /\ proc' = nprocs + 1
            /\ alive' = [alive EXCEPT ![nprocs + 1] = TRUE]
            /\ rdr' = [rdr EXCEPT ![nprocs + 1] = "run"]
            /\ wpc' = [wpc EXCEPT ![nprocs + 1] = "top"]
    /\ UNCHANGED <<proto, outdir, _LOGS, pipe, nlines, witem, wimg, _in_q, flags,
                   _current_image_path, ncmds, hist, enqGen, taker>>

\* ------------------------------------------------------------- /current.mp4
\* _latest_mp4: the newest clip of OUTPUT_DIR, <<>> when there is none,
\* else the one-element sequence holding it.
_latest_mp4 ==
    IF outdir = <<>> THEN <<>> ELSE <<outdir[Len(outdir)]>>

\* A Range header is its unit prefix and what follows it, split at "-"; each
\* piece is empty, a decimal number or something int() rejects.
Empty   == [kind |-> "empty", n |-> 0]
Junk    == [kind |-> "junk", n |-> 0]
Num(k)  == [kind |-> "num", n |-> k]

NoRange == [unit |-> "", parts |-> <<>>]
BytesRange(a, b) == [unit |-> "bytes=", parts |-> <<Num(a), Num(b)>>]

Pieces == { Empty, Junk } \cup { Num(k) : k \in 0..(MaxSize + 1) }
Ranges ==
    { NoRange } \cup
    { [unit |-> u, parts |-> ps] :
        u \in { "bytes=", "items=" },
        ps \in { <<x>> : x \in Pieces } \cup { <<x, y>> : x, y \in Pieces } }

\* The parsing of current_mp4: <<start, end>> before the clamp; a piece that
\* int() rejects falls back to the whole file.
ParseRange(range, file_size) ==
    LET parts == range.parts
        raises == \/ parts[1].kind = "junk"
                  \/ Len(parts) > 1 /\ parts[2].kind = "junk"
        start == IF parts[1].kind = "empty" THEN 0 ELSE parts[1].n
        end   == IF Len(parts) > 1 /\ parts[2].kind # "empty"
                 THEN parts[2].n ELSE file_size - 1
    IN  IF raises THEN <<0, file_size - 1>> ELSE <<start, end>>

Max(a, b) == IF a >= b THEN a ELSE b
Min(a, b) == IF a <= b THEN a ELSE b

\* start = max(0, start); end = min(end, file_size - 1)
Clamp(se, file_size) == <<Max(0, se[1]), Min(se[2], file_size - 1)>>

\* _read stopping one byte short of end.
ReadBytes_exclusive(file, start, end) ==
    IF end <= start \/ start >= Len(file) THEN <<>>
    ELSE SubSeq(file, start + 1, Min(end, Len(file)))

\* _read: f.seek(start), then up to end - start + 1 bytes.
ReadBytes(file, start, end) ==
    IF end < start \/ start >= Len(file) THEN <<>>
    ELSE SubSeq(file, start + 1, Min(end, Len(file) - 1) + 1)

\* GET /current.mp4
current_mp4(range) ==
    /\ IF _latest_mp4 = <<>>
       THEN resp' = Resp(200, "video/mp4", <<>>, 0, <<>>)
       ELSE LET file == _latest_mp4[1]
                file_size == Len(file)
                se == IF range.unit = "bytes="
                      THEN Clamp(ParseRange(range, file_size), file_size)
                      ELSE <<0, file_size - 1>>
            IN  resp' = Resp(IF range # NoRange THEN 206 ELSE 200, "video/mp4",
                             ReadBytes(file, se[1], se[2]), se[2] - se[1] + 1,
                             <<se[1], se[2], file_size>>)
    /\ UNCHANGED <<proto, outdir, _LOGS, proc, nprocs, alive, pipe, nlines, threads,
                   _in_q, flags, _current_image_path, hpc, ncmds, hist, enqGen,
                   taker>>

\* ------------------------------------------------------------ /image, /thumb
\* The name parameter: components, "/" first when the name is absolute.
Names == { <<"image.png">>, <<"gone.png">>, <<"..", "etc", "passwd">>,
           <<"sub", "..", "image.png">>, <<"/", "etc", "passwd">>,
           <<"..", "images", "image.png">> }

\* pathlib.Path(IMAGES_DIR, name): an absolute name replaces the base.
Join(base, name) ==
    IF name # <<>> /\ Head(name) = "/" THEN Tail(name) ELSE base \o name

\* The bytes of a file stand for themselves: reading a file gives its path.
ReadFile(path) == <<path>>

\* GET /image
image(name) ==
    /\ LET path == Resolve(Join(IMAGES_DIR, name))
       IN  resp' = IF ~_within(IMAGES_DIR, path) \/ ~exists(path)
                   THEN Refused(404, "Not Found")
                   ELSE Resp(200, "image/*", ReadFile(path), 0, <<>>)
    /\ UNCHANGED <<proto, outdir, _LOGS, proc, nprocs, alive, pipe, nlines, threads,
                   _in_q, flags, _current_image_path, hpc, ncmds, hist, enqGen,
                   taker>>

\* GET /thumb: as /image, but the file is decoded and scaled, which can fail.
thumb(name) ==
    /\ LET path == Resolve(Join(IMAGES_DIR, name))
       IN  IF ~_within(IMAGES_DIR, path) \/ ~exists(path)
           THEN resp' = Refused(404, "Not Found")
           ELSE \/ resp' = Resp(200, "image/jpeg", ReadFile(path), 0, <<>>)
                \/ resp' = Refused(500, "Internal Server Error")
    /\ UNCHANGED <<proto, outdir, _LOGS, proc, nprocs, alive, pipe, nlines, threads,
                   _in_q, flags, _current_image_path, hpc, ncmds, hist, enqGen,
                   taker>>

\* GET /healthz
health ==
    [proc_alive |-> proc # NoProc /\ alive[proc],
     latest_mp4 |-> _latest_mp4,
     image      |-> _current_image_path]

\* ------------------------------------------------------------ specification
Next ==
    \/ \E g \in Gens, s \in ChildLines : ChildPrint(g, s)
    \/ \E g \in Gens : ChildExit(g)
    \/ \E g \in Gens : ChildOutput(g)
    \/ \E g \in Gens : ReaderLine(g)
    \/ \E g \in Gens : ReaderEOF(g)
    \/ \E g \in Gens : WriterTop(g)
    \/ \E g \in Gens : WriterImage(g)
    \/ \E g \in Gens : WriterImageDone(g)
    \/ \E g \in Gens : WriterGet(g)
    \/ \E g \in Gens : WriterWaitMouse(g)
    \/ \E g \in Gens : WriterSendMouse(g)
    \/ \E g \in Gens : WriterAckMouse(g)
    \/ \E g \in Gens : WriterWaitMove(g)
    \/ \E g \in Gens : WriterSendMove(g)
    \/ \E g \in Gens : WriterAckMove(g)
    \/ cmd_endpoint
    \/ \E img \in ReqImages, purge \in BOOLEAN : restart(img, purge)
    \/ _stop_proc
    \/ _start_proc

Spec == Init /\ [][Next]_vars

\* The threads and the running handler are scheduled fairly; the child and the
\* clients are free to stay silent.
Fairness ==
    /\ \A g \in Gens : WF_vars(Reader(g)) /\ WF_vars(Writer(g))
    /\ WF_vars(_stop_proc) /\ WF_vars(_start_proc)

FairSpec == Spec /\ Fairness

\* One session with the scripted child and a single command, no restart.
ScriptInit == Init /\ _current_image_path = P_image

ScriptNext ==
    \/ ChildScript(1)
    \/ ReaderLine(1)
    \/ WriterTop(1)
    \/ WriterImage(1)
    \/ WriterImageDone(1)
    \/ WriterGet(1)
    \/ WriterWaitMouse(1)
    \/ WriterSendMouse(1)
    \/ WriterAckMouse(1)
    \/ WriterWaitMove(1)
    \/ WriterSendMove(1)
    \/ WriterAckMove(1)
    \/ (ncmds = 0 /\ cmd_endpoint)

ScriptSpec == ScriptInit /\ [][ScriptNext]_vars

\* One session with the protocol-following child, no restart; the child and
\* the two threads are scheduled fairly, the clients need not send anything.
ProtoNext ==
    \/ ProtoChild(1)
    \/ ReaderLine(1)
    \/ WriterTop(1)
    \/ WriterImage(1)
    \/ WriterImageDone(1)
    \/ WriterGet(1)
    \/ WriterWaitMouse(1)
    \/ WriterSendMouse(1)
    \/ WriterAckMouse(1)
    \/ WriterWaitMove(1)
    \/ WriterSendMove(1)
    \/ WriterAckMove(1)
    \/ cmd_endpoint

ProtoFairSpec ==
    /\ ScriptInit
    /\ [][ProtoNext]_vars
    /\ WF_vars(ProtoChild(1))
    /\ WF_vars(Reader(1))
    /\ WF_vars(Writer(1))

\* The file-serving routes and /restart on their own, over every clip size:
\* they read nothing the threads write except the clips, so the threads and
\* the children are left out here.
WebInit ==
    \/ Boot(<<>>)
    \/ \E n \in 0..MaxSize : Boot(<<Bytes(n)>>)

WebNext ==
    \/ \E range \in Ranges : current_mp4(range)
    \/ \E name \in Names : image(name)
    \/ \E name \in Names : thumb(name)
    \/ \E img \in ReqImages, purge \in BOOLEAN : restart(img, purge)
    \/ _stop_proc
    \/ _start_proc

WebSpec == WebInit /\ [][WebNext]_vars

\* The Reader of one child on its own, over every line of TestLines.
ReaderNext ==
    \/ \E s \in TestLines : ChildPrint(1, s)
    \/ ReaderLine(1)

ReaderSpec == ScriptInit /\ [][ReaderNext]_vars

\* ------------------------------------------------------------------ claims
\* The command tokens written to child g, in the order of the writes.
CmdWrites(g) == SelectSeq(hist[g], LAMBDA e : e.ev = "W" /\ e.kind # "image")

\* C1: the command tokens written to one child are primary(c1), secondary(c1),
\* primary(c2), secondary(c2), ... with c1, c2, ... in the order of their
\* enqueueing (command ids are given in that order): every odd token is a
\* primary token of a later command than the one before, every even token is
\* the secondary token of the command whose primary token precedes it.
C1_TokenOrder ==
    \A g \in Gens :
        LET w == CmdWrites(g)
        IN  \A i \in 1..Len(w) :
                IF i % 2 = 1
                THEN /\ w[i].kind = "mouse"
                     /\ i > 2 => w[i].cmd > w[i - 2].cmd
                ELSE /\ w[i].kind = "move"
                     /\ w[i].cmd = w[i - 1].cmd

\* Two commands have been written in full to one child.
C1_Witness ==
    \E g \in Gens : Len(CmdWrites(g)) = 4 /\ CmdWrites(g)[3].cmd # CmdWrites(g)[1].cmd

IsWrite(e, kind) == e.ev = "W" /\ e.kind = kind

C3_PrimaryAfterOwnPrompt ==
    \A g \in Gens : \A i \in 1..Len(hist[g]) :
        IsWrite(hist[g][i], "mouse") =>
            \E j \in 1..(i - 1) :
                /\ hist[g][j] = Saw("mouse")
                /\ \A k \in (j + 1)..(i - 1) : ~IsWrite(hist[g][k], "mouse")

IsPrefix(a, b) == Len(a) <= Len(b) /\ \A i \in 1..Len(a) : a[i] = b[i]

\* C4 (as claimed): with the scripted child (image prompt, primary prompt,
\* secondary prompt) and a single command, the lines written to the child are
\* the image line, the primary token, the secondary token, in that order.
C4_ImageThenCommand ==
    IsPrefix(Written(1), <<WroteImage(P_image), WroteMouse(1), WroteMove(1)>>)

\* C5 (as claimed): once _await_image is set and the selected image is valid,
\* the image line is eventually written to the child.
C5_ImageAnswered ==
    (_await_image /\ ImageOk(_current_image_path))
        ~> (\E i \in 1..Len(hist[1]) : IsWrite(hist[1][i], "image"))

\* The commands accepted so far.
Accepted == 1..ncmds

\* C6 (as claimed): a command enqueued after a restart has returned (a second
\* or later child is current) is dequeued only by the Writer of the child that
\* was current then, and its tokens are written to that child alone.
C6_OnlyNewWriter ==
    \A c \in Accepted :
        enqGen[c] >= 2 =>
            /\ taker[c] \in {0, enqGen[c]}
            /\ \A g \in Gens : \A i \in 1..Len(hist[g]) :
                   (hist[g][i].ev = "W" /\ hist[g][i].cmd = c) => g = enqGen[c]

\* C7: no token of a command that was enqueued before the restart that launched
\* child g was called (so every command in the queue at that call) is written
\* to child g.
C7_StaleNeverWritten ==
    \A g \in Gens : \A i \in 1..Len(hist[g]) :
        (hist[g][i].ev = "W" /\ hist[g][i].kind # "image") =>
            enqGen[hist[g][i].cmd] >= g

\* A command was waiting in the queue when the restart that launched the current
\* child was called and was discarded, and the new child has since been sent
\* a token of a later command.
C7_Witness ==
    \E c, d \in Accepted :
        /\ proc # NoProc
        /\ enqGen[c] = proc - 1
        /\ taker[c] = 0
        /\ \A i \in 1..Len(_in_q) : _in_q[i] # Cmd(c)
        /\ enqGen[d] = proc
        /\ \E i \in 1..Len(hist[proc]) : hist[proc][i] = WroteMouse(d)

\* Child g has been launched and _stop_proc has since replaced it as proc.
Stopped(g) == g <= nprocs /\ proc # g

\* C8 (as claimed): the Writer of a stopped child eventually leaves its loop.
C8_StoppedWriterExits ==
    \A g \in Gens : Stopped(g) ~> (wpc[g] \in {"done", "dead"})

\* A later child than g has been launched.
Superseded(g) == g < nprocs

\* C9 (as claimed): no step of the Reader or the Writer of a superseded child
\* changes _await_image, _ready_mouse or _ready_move.
C9_SupersededLeavesFlags ==
    [][\A g \in Gens :
          (Superseded(g) /\ (Reader(g) \/ Writer(g))) => UNCHANGED flags]_vars

\* C10 (as claimed): when _start_proc has launched a child, _await_image is set.
C10_StartSetsAwaitImage ==
    [][(_start_proc /\ nprocs' = nprocs + 1) => _await_image']_vars

\* C10 (amended): _start_proc does not raise _await_image; the flag goes from
\* unset to set only in a step of a Reader that reads a line it takes for an
\* image prompt.
C10_AwaitImageOnlyFromPrompt ==
    [][(~_await_image /\ _await_image') =>
          \E g \in Gens : ReaderLine(g) /\ Classify(Head(pipe[g])) = "image"]_vars

\* A restart has launched a child, nothing has been read from it, _await_image
\* is unset and its Writer has already gone past the image step.
C10_Witness ==
    /\ proc >= 2
    /\ hpc = "idle"
    /\ ~_await_image
    /\ hist[proc] = <<>>
    /\ wpc[proc] = "get"

\* C11 (as claimed): OUTPUT_DIR is emptied only while no child is current and
\* no child is alive.
C11_PurgeAfterStop ==
    [][(outdir # <<>> /\ outdir' = <<>>) =>
          (proc = NoProc /\ \A g \in Gens : ~alive[g])]_vars

\* C12 (as claimed): _stop_proc called while proc is None leaves the flags and
\* the queue as they were.
C12_StopWithoutProcIsNoOp ==
    [][(_stop_proc /\ proc = NoProc) => UNCHANGED <<flags, _in_q>>]_vars

\* The img of a request that /restart refuses.
Invalid(img) == img # <<>> /\ (~_within(IMAGES_DIR, img) \/ ~exists(img))

\* C13: a /restart whose image is outside IMAGES_DIR or does not exist is
\* answered 400 and changes nothing else (the child, the selected image, the
\* queue, the flags, the clips, the threads), and no image line ever written
\* to a child is a path that /restart refuses.
C13_RejectedRestartChangesNothing ==
    /\ [](\A g \in Gens : \A i \in 1..Len(hist[g]) :
             IsWrite(hist[g][i], "image") => ~Invalid(hist[g][i].path))
    /\ [][\A img \in ReqImages, purge \in BOOLEAN :
             (restart(img, purge) /\ Invalid(img)) =>
                 /\ resp' = Refused(400, "Image must be inside IMAGES_DIR")
                 /\ UNCHANGED <<proc, alive, _current_image_path, _in_q, flags,
                                outdir, hpc, nprocs, hist, threads, _LOGS>>]_vars

\* A /restart was refused while a child is running, a command is queued and a
\* clip is in OUTPUT_DIR.
C13_Witness ==
    /\ resp = Refused(400, "Image must be inside IMAGES_DIR")
    /\ proc # NoProc /\ alive[proc]
    /\ _in_q # <<>>
    /\ outdir # <<>>

\* C14: between the return of _stop_proc and the return of _start_proc,
\* /healthz reports proc_alive false.
C14_HealthAfterStop ==
    hpc = "start" => ~health.proc_alive

\* _stop_proc has returned after a child had been launched, and _start_proc
\* has not yet run.
C14_Witness ==
    /\ hpc = "start"
    /\ nprocs >= 1
    /\ ~health.proc_alive

C16_BrokenPipeLogged ==
    [][\A g \in Gens :
          (wpc[g] # "dead" /\ wpc'[g] = "dead") => _LOGS' # _LOGS]_vars

\* C17 (as claimed): the range served from a non-empty clip satisfies
\* 0 <= start <= end <= size - 1, and the declared length is not negative.
C17_RangeWithinFile ==
    (resp.detail = "video/mp4" /\ resp.crange # <<>> /\ resp.crange[3] > 0) =>
        /\ 0 <= resp.crange[1]
        /\ resp.crange[1] <= resp.crange[2]
        /\ resp.crange[2] <= resp.crange[3] - 1
        /\ resp.length >= 0

\* C18: for a clip of N bytes, no Range header gives status 200 and all N
\* bytes; bytes=a-b with 0 <= a <= b < N gives status 206, Content-Range
\* a-b/N, Content-Length b-a+1 and the bytes at offsets a..b.
C18_RangeServed ==
    [][\A range \in { NoRange } \cup { BytesRange(a, b) : a, b \in 0..MaxSize } :
          (current_mp4(range) /\ _latest_mp4 # <<>>) =>
              LET file == _latest_mp4[1]
                  N == Len(file)
              IN  /\ range = NoRange =>
                         /\ resp'.status = 200
                         /\ resp'.body = file
                  /\ \A a, b \in 0..(N - 1) :
                         (a <= b /\ range = BytesRange(a, b)) =>
                             /\ resp'.status = 206
                             /\ resp'.crange = <<a, b, N>>
                             /\ resp'.length = b - a + 1
                             /\ resp'.body = [i \in 1..(b - a + 1) |-> file[a + i]]
      ]_vars

\* bytes=1-2 of the three-byte clip has been served.
C18_Witness ==
    /\ resp.status = 206
    /\ resp.crange = <<1, 2, MaxSize>>
    /\ resp.body = <<Bytes(MaxSize)[2], Bytes(MaxSize)[3]>>

\* path is base or lies beneath it: base is a prefix of its components.
Beneath(base, path) ==
    /\ Len(base) <= Len(path)
    /\ \A i \in 1..Len(base) : path[i] = base[i]

\* The paths the routes are asked for.
AskedPaths ==
    ReqImages \cup InitPaths \cup { P_other, IMAGES_DIR, <<"images", "..">>,
                                   <<"images2", "image.png">> }
              \cup { Join(IMAGES_DIR, name) : name \in Names }

\* C19: _within(base, path) is true exactly when the resolved path is base or
\* beneath it; /image and /thumb answer only with files beneath IMAGES_DIR,
\* and the selected image is always beneath IMAGES_DIR.
C19_Containment ==
    /\ \A path \in AskedPaths :
           _within(IMAGES_DIR, path) <=> Beneath(IMAGES_DIR, Resolve(path))
    /\ resp.detail \in {"image/*", "image/jpeg"} =>
           Beneath(IMAGES_DIR, resp.body[1])
    /\ Beneath(IMAGES_DIR, Resolve(_current_image_path))

\* After a restart, /image has passed a name through the check and served the
\* file it resolves to.
C19_Witness ==
    /\ resp = Resp(200, "image/*", ReadFile(P_image), 0, <<>>)
    /\ nprocs = MaxProcs
    /\ _current_image_path = P_image

\* The image line has been written to the child.
ImageWritten == \E i \in 1..Len(hist[1]) : IsWrite(hist[1][i], "image")

\* C20: with the protocol-following child and fair scheduling, once the image
\* line has been written every accepted command eventually has its primary
\* and its secondary token written to the child.
C20_CommandsWritten ==
    \A c \in CmdIds :
        (c \in Accepted /\ ImageWritten) ~>
            (\E i \in 1..Len(hist[1]) : \E j \in (i + 1)..Len(hist[1]) :
                 hist[1][i] = WroteMouse(c) /\ hist[1][j] = WroteMove(c))

\* Both commands were written in full after the image line.
C20_Witness ==
    /\ ImageWritten
    /\ Len(CmdWrites(1)) = 2 * MaxCmds

\* C21 (as claimed): at most one of _await_image, _ready_mouse and _ready_move
\* is set.
C21_AtMostOneFlag ==
    /\ ~(_await_image /\ _ready_mouse)
    /\ ~(_await_image /\ _ready_move)
    /\ ~(_ready_mouse /\ _ready_move)

\* C22: every image line written to a child is a path that resolves inside
\* IMAGES_DIR and exists; when the Writer finds the selected image failing
\* either test it writes nothing and appends the failure to _LOGS, and the
\* finally block that follows leaves _await_image unset.
C22_ImageLineValidated ==
    /\ [](\A g \in Gens : \A i \in 1..Len(hist[g]) :
             IsWrite(hist[g][i], "image") =>
                 /\ _within(IMAGES_DIR, hist[g][i].path)
                 /\ exists(hist[g][i].path))
    /\ [][\A g \in Gens :
             /\ (WriterImage(g) /\ ~(_within(IMAGES_DIR, Resolve(wimg[g]))
                                     /\ exists(Resolve(wimg[g])))) =>
                    /\ hist' = hist
                    /\ LogBadImage(Resolve(wimg[g])) \in _LOGS'
                    /\ wpc'[g] = "clr"
             /\ (wpc[g] = "clr" /\ wpc'[g] # "clr") => ~_await_image']_vars

\* A child asked for the image while the selected one does not exist: nothing
\* was written to it, the failure is in _LOGS and _await_image is unset again.
C22_Witness ==
    \E g \in Gens :
        /\ hist[g] = <<Saw("image")>>
        /\ LogBadImage(P_gone) \in _LOGS
        /\ wpc[g] = "top"
        /\ ~_await_image

\* C23: each line the Reader takes from the pipe is one step: an image prompt
\* sets _await_image and clears _ready_mouse and _ready_move; a mouse prompt
\* sets _ready_mouse, clears _ready_move and leaves _await_image; a movement
\* prompt sets _ready_move and leaves the other two; any other line leaves
\* the three flags as they were.  No step of a Reader changes _in_q.
C23_ReaderTransition ==
    [][\A g \in Gens :
          /\ Reader(g) => UNCHANGED _in_q
          /\ ReaderLine(g) =>
                LET s == Head(pipe[g])
                IN  /\ s = L_image =>
                           _await_image' /\ ~_ready_mouse' /\ ~_ready_move'
                    /\ s = L_mouse =>
                           _ready_mouse' /\ ~_ready_move' /\ UNCHANGED _await_image
                    /\ s = L_move =>
                           _ready_move' /\ UNCHANGED <<_ready_mouse, _await_image>>
                    /\ s = L_text => UNCHANGED flags]_vars

\* A movement prompt was read right after a mouse prompt: _ready_move is set
\* and _ready_mouse is still as the mouse prompt left it.
C23_Witness ==
    \E g \in Gens :
        /\ hist[g] = <<Saw("mouse"), Saw("move")>>
        /\ _ready_mouse
        /\ _ready_move

\* What the lines of TestLines are, read by eye: the lines that hold an image
\* phrase in some case, those that hold the mouse phrase and no image phrase,
\* those that hold a movement phrase and neither of the others.
ImageLines ==
    { L_image, L_image_upper, L_image_lower, L_image_enter, L_image_short,
      L_image_of, L_mouse_image, L_move_image, L_all }
MouseLines == { L_mouse, L_mouse_upper, L_mouse_move, L_move_mouse }
MoveLines  == { L_move, L_move_title, L_move_lower }

Want(s) ==
    IF s \in ImageLines THEN "image"
    ELSE IF s \in MouseLines THEN "mouse"
    ELSE IF s \in MoveLines THEN "move"
    ELSE "none"

\* C24: every line is classified as exactly one of image prompt, mouse prompt,
\* movement prompt or none; two lines that differ only in case are classified
\* alike; a line holding phrases of several prompts is an image prompt if an
\* image phrase is among them, else a mouse prompt if the mouse phrase is; and
\* the Reader records and acts on that one class.
C24_ClassifyPriority ==
    /\ [](/\ \A s \in TestLines : Classify(s) = Want(s)
          /\ \A s, t \in TestLines :
                 LowTable[s] = LowTable[t] => Classify(s) = Classify(t))
    /\ [][ReaderLine(1) =>
             LET s == Head(pipe[1])
             IN  /\ hist'[1] = IF Want(s) = "none" THEN hist[1]
                               ELSE Append(hist[1], Saw(Want(s)))
                 /\ _await_image' = (Want(s) = "image" \/ _await_image)]_vars

\* The Reader has read the line that holds the phrases of all three prompts
\* in mixed case, and has taken it for an image prompt.
C24_Witness ==
    /\ LogChild(L_all) \in _LOGS
    /\ hist[1] = <<Saw("image")>>
    /\ _await_image
    /\ ~_ready_mouse
    /\ ~_ready_move

====
